---- MODULE Spec2Model ----
(***************************************************************************)
(* Model of scripts/tabpfn-poc.py: the import guards, load_energy_data,    *)
(* generate_synthetic_data, prepare_features, evaluate_tabpfn and main.    *)
(*                                                                         *)
(* A data frame is a record [cols, rows]: cols is the sequence of column   *)
(* names, rows the sequence of records.  A row carries the raw columns in  *)
(* the function raw, the notes column, and the engineered columns lag1,    *)
(* lag7 (functions over RawColSet) and rolling7 (over RollColSet).         *)
(* NaN / None / SQL NULL is the value NULL.  A mean is kept exactly, as    *)
(* the pair [sum, n] of the sum and the number of averaged values; n = 0   *)
(* is the NaN mean.                                                        *)
(***************************************************************************)
EXTENDS Integers, Sequences, FiniteSets, TLC

----------------------------------------------------------------------------
(* Program constants *)

MIN_SAMPLES == 20
N_SAMPLES == 200
LAG_SHORT == 1
LAG_LONG == 7
ROLL_WINDOW == 7
ROLL_MIN_PERIODS == 1
MIN_FEATURES == 3
CV_FOLDS == 5
SYNTHETIC_USER == 0

(* Bounds of the explored inputs *)

MaxRowsA == 28
MaxRowsB == 8
FoldSize == 2
MaxEvalN == 22

NULL == -1

RawColSet == {"energy_level", "mood_score", "stress_level", "hours_slept"}
RollColSet == {"energy_level", "mood_score", "stress_level"}

Range(s) == {s[i] : i \in 1..Len(s)}

----------------------------------------------------------------------------
(* The energy_logs table of the store *)

Users == {1, 2}

\* The value stored for user u on day d in column c; the values of the two
\* users never coincide.
CellValue(u, d, c) ==
    LET k == CASE c = "energy_level" -> 1
               [] c = "mood_score" -> 2
               [] c = "stress_level" -> 3
               [] OTHER -> 4
    IN 1000 * u + 10 * d + k

\* The k-th log of user u: user 1 logs every day, user 2 every other day.
LogDate(u, k) == u * k

\* nullCol / nullAt put one NULL into the k-th log of user 1;
\* nullCol = "notes_all" leaves every notes field NULL.
TableRow(u, k, nullCol, nullAt) ==
    LET hit == (u = 1 /\ k = nullAt)
    IN [user_id |-> u,
        log_date |-> LogDate(u, k),
        raw |-> [c \in RawColSet |->
                    IF hit /\ nullCol = c THEN NULL
                    ELSE CellValue(u, LogDate(u, k), c)],
        notes |-> IF nullCol = "notes_all" \/ (hit /\ nullCol = "notes")
                  THEN NULL ELSE 1]

\* Heap order of the table: the logs of the two users interleaved, newest
\* first when layout = "newest_first".
RECURSIVE Interleave(_, _)
Interleave(s, t) ==
    IF s = <<>> THEN t
    ELSE IF t = <<>> THEN s
    ELSE <<Head(s), Head(t)>> \o Interleave(Tail(s), Tail(t))

Reverse(s) == [i \in 1..Len(s) |-> s[Len(s) + 1 - i]]

MakeTable(nA, nB, layout, nullCol, nullAt) ==
    LET a == [k \in 1..nA |-> TableRow(1, k, nullCol, nullAt)]
        b == [k \in 1..nB |-> TableRow(2, k, nullCol, nullAt)]
        t == Interleave(a, b)
    IN IF layout = "newest_first" THEN Reverse(t) ELSE t

NullChoices == {"none", "notes_all", "notes", "energy_level", "mood_score"}
NullAt == LAG_LONG + 2
RowCountsB == {0, MaxRowsB}
Layouts == {"oldest_first", "newest_first"}

----------------------------------------------------------------------------
(* Frames *)

RawColumns == <<"user_id", "log_date", "energy_level", "mood_score",
                "stress_level", "hours_slept", "notes">>

FeatureColumns ==
    <<"energy_level_lag1", "energy_level_lag7", "mood_score_lag1",
      "mood_score_lag7", "stress_level_lag1", "stress_level_lag7",
      "hours_slept_lag1", "hours_slept_lag7", "energy_level_rolling7",
      "mood_score_rolling7", "stress_level_rolling7">>

EmptyFrame == [cols |-> <<>>, rows |-> <<>>]

NoLag == [c \in RawColSet |-> NULL]
NoRoll == [c \in RollColSet |-> [sum |-> 0, n |-> 0]]

FrameRow(r) ==
    [user_id |-> r.user_id, log_date |-> r.log_date, raw |-> r.raw,
     notes |-> r.notes, lag1 |-> NoLag, lag7 |-> NoLag, rolling7 |-> NoRoll,
     day_of_week |-> NULL]

\* ORDER BY user_id, log_date / sort_values(["user_id", "log_date"])
KeyLeq(r, s) ==
    \/ r.user_id < s.user_id
    \/ r.user_id = s.user_id /\ r.log_date <= s.log_date

RECURSIVE InsertSorted(_, _)
InsertSorted(r, s) ==
    IF s = <<>> THEN <<r>>
    ELSE IF KeyLeq(r, Head(s)) THEN <<r>> \o s
    ELSE <<Head(s)>> \o InsertSorted(r, Tail(s))

RECURSIVE SortRows(_)
SortRows(s) ==
    IF s = <<>> THEN <<>>
    ELSE InsertSorted(Head(s), SortRows(Tail(s)))

\* SELECT ... FROM energy_logs WHERE energy_level IS NOT NULL ORDER BY ...
IsLogged(r) == r.raw["energy_level"] # NULL

QueryEnergyLogs(t) ==
    LET kept == SelectSeq(t, IsLogged)
        srt == SortRows(kept)
    IN [cols |-> RawColumns,
        rows |-> [i \in 1..Len(srt) |-> FrameRow(srt[i])]]

----------------------------------------------------------------------------
(* Feature engineering *)

\* Scanning back from position j, the position of the k-th row of user u
\* (0 when the group has fewer than k rows at or before j).
RECURSIVE GroupPrev(_, _, _, _)
GroupPrev(rows, u, j, k) ==
    IF j = 0 THEN 0
    ELSE IF rows[j].user_id = u
         THEN IF k = 1 THEN j ELSE GroupPrev(rows, u, j - 1, k - 1)
         ELSE GroupPrev(rows, u, j - 1, k)

\* A shift that ignores the grouping by user.
UngroupedShift(rows, i, c, k) ==
    IF i - k < 1 THEN NULL ELSE rows[i - k].raw[c]

\* df[col].shift(k): the value k positions earlier in the frame.
FrameShift(rows, i, c, k) ==
    IF i - k < 1 THEN NULL ELSE rows[i - k].raw[c]

\* df.groupby("user_id")[col].shift(k): the value k positions earlier in the
\* rows of the same user.
GroupShift(rows, i, c, k) ==
    LET j == GroupPrev(rows, rows[i].user_id, i - 1, k)
    IN IF j = 0 THEN NULL ELSE rows[j].raw[c]

\* Sum and count of the defined values of column c in the w rows of user u
\* found scanning back from position j.
RECURSIVE WindowAcc(_, _, _, _, _)
WindowAcc(rows, u, j, w, c) ==
    IF j = 0 \/ w = 0 THEN [sum |-> 0, n |-> 0]
    ELSE IF rows[j].user_id = u
         THEN LET rest == WindowAcc(rows, u, j - 1, w - 1, c)
                  v == rows[j].raw[c]
              IN IF v = NULL THEN rest
                 ELSE [sum |-> rest.sum + v, n |-> rest.n + 1]
         ELSE WindowAcc(rows, u, j - 1, w, c)

\* x.rolling(7).mean(): NaN until the window is full.
GroupRollingFullWindow(rows, i, c) ==
    LET m == WindowAcc(rows, rows[i].user_id, i, ROLL_WINDOW, c)
    IN IF m.n < ROLL_WINDOW THEN [sum |-> 0, n |-> 0] ELSE m

\* x.rolling(7, min_periods=1).mean() within the rows of the same user: NaN
\* when fewer than min_periods values of the window are defined.
GroupRolling(rows, i, c) ==
    LET m == WindowAcc(rows, rows[i].user_id, i, ROLL_WINDOW, c)
    IN IF m.n < ROLL_MIN_PERIODS THEN [sum |-> 0, n |-> 0] ELSE m

\* df[col].rolling(7, min_periods=1).mean() over the whole frame.
RECURSIVE FrameWindowAcc(_, _, _, _)
FrameWindowAcc(rows, j, w, c) ==
    IF j = 0 \/ w = 0 THEN [sum |-> 0, n |-> 0]
    ELSE LET rest == FrameWindowAcc(rows, j - 1, w - 1, c)
             v == rows[j].raw[c]
         IN IF v = NULL THEN rest
            ELSE [sum |-> rest.sum + v, n |-> rest.n + 1]

FrameRolling(rows, i, c) ==
    LET m == FrameWindowAcc(rows, i, ROLL_WINDOW, c)
    IN IF m.n < ROLL_MIN_PERIODS THEN [sum |-> 0, n |-> 0] ELSE m

\* dt.dayofweek of a day number; day 1 is Monday 2024-01-01.
DayOfWeek(d) == (d - 1) % 7

EngineerRows(rows) ==
    [i \in 1..Len(rows) |->
        [rows[i] EXCEPT
            !.lag1 = [c \in RawColSet |-> GroupShift(rows, i, c, LAG_SHORT)],
            !.lag7 = [c \in RawColSet |-> GroupShift(rows, i, c, LAG_LONG)],
            !.rolling7 = [c \in RollColSet |-> GroupRolling(rows, i, c)],
            !.day_of_week = DayOfWeek(rows[i].log_date)]]

\* Lines 117-138 of load_energy_data.
EngineerFeatures(frame) ==
    [cols |-> frame.cols \o FeatureColumns
                \o <<"day_of_week", "day_sin", "day_cos">>,
     rows |-> EngineerRows(SortRows(frame.rows))]

\* A row has no NaN / None in any column.
RowComplete(r) ==
    /\ \A c \in RawColSet : r.raw[c] # NULL
    /\ r.notes # NULL
    /\ \A c \in RawColSet : r.lag1[c] # NULL /\ r.lag7[c] # NULL
    /\ \A c \in RollColSet : r.rolling7[c].n > 0
    /\ r.day_of_week # NULL

\* A row has no NaN in its lag columns.
LagsDefined(r) == \A c \in RawColSet : r.lag1[c] # NULL /\ r.lag7[c] # NULL

\* df.dropna(subset=<the lag columns>)
DropNaLagsOnly(frame) ==
    [cols |-> frame.cols, rows |-> SelectSeq(frame.rows, LagsDefined)]

\* df.dropna()
DropNa(frame) == [cols |-> frame.cols, rows |-> SelectSeq(frame.rows, RowComplete)]

----------------------------------------------------------------------------
(* generate_synthetic_data *)

\* The draws are fixed by np.random.seed(42); the model takes a fixed
\* sequence in the ranges the clipping and rounding leave.
SynthValue(i, c) ==
    CASE c = "energy_level" -> 1 + ((3 * i + 1) % 5)
      [] c = "mood_score" -> 1 + ((2 * i + 3) % 5)
      [] c = "stress_level" -> 1 + ((i + 2) % 5)
      [] OTHER -> 40 + ((7 * i) % 61)

SynthBaseRows(n) ==
    [i \in 1..n |->
        [user_id |-> SYNTHETIC_USER, log_date |-> i,
         raw |-> [c \in RawColSet |-> SynthValue(i, c)],
         notes |-> NULL, lag1 |-> NoLag, lag7 |-> NoLag,
         rolling7 |-> NoRoll, day_of_week |-> NULL]]

SynthEngineerRows(rows) ==
    [i \in 1..Len(rows) |->
        [rows[i] EXCEPT
            !.lag1 = [c \in RawColSet |-> FrameShift(rows, i, c, LAG_SHORT)],
            !.lag7 = [c \in RawColSet |-> FrameShift(rows, i, c, LAG_LONG)],
            !.rolling7 = [c \in RollColSet |-> FrameRolling(rows, i, c)],
            !.day_of_week = DayOfWeek(rows[i].log_date)]]

\* Lines 265-310: the frame before the final dropna.
SyntheticFrame(n) ==
    [cols |-> RawColumns \o FeatureColumns \o <<"day_sin", "day_cos">>,
     rows |-> SynthEngineerRows(SynthBaseRows(n))]

----------------------------------------------------------------------------
(* prepare_features *)

feature_cols ==
    <<"mood_score", "stress_level", "hours_slept", "energy_level_lag1",
      "energy_level_lag7", "mood_score_lag1", "stress_level_lag1",
      "energy_level_rolling7", "mood_score_rolling7",
      "stress_level_rolling7", "day_sin", "day_cos">>

AvailableCols(frame) ==
    LET InFrame(c) == c \in Range(frame.cols)
    IN SelectSeq(feature_cols, InFrame)

\* X as its shape and column list, y as the target vector; np.array([]) is
\* the matrix with no rows and no columns.
PrepareX(frame) ==
    IF Len(AvailableCols(frame)) < MIN_FEATURES
    THEN [n |-> 0, features |-> <<>>]
    ELSE [n |-> Len(frame.rows), features |-> AvailableCols(frame)]

PrepareY(frame) ==
    IF Len(AvailableCols(frame)) < MIN_FEATURES
    THEN <<>>
    ELSE [i \in 1..Len(frame.rows) |-> frame.rows[i].raw["energy_level"]]

----------------------------------------------------------------------------
(* evaluate_tabpfn and the verdict *)

InsufficientSamplesInclusive(n) == n <= MIN_SAMPLES

InsufficientSamples(n) == n < MIN_SAMPLES

ErrorResult(n) ==
    [kind |-> "error", samples |-> n, features |-> 0, cv_num |-> 0]

MetricsResult(n, f, cv) ==
    [kind |-> "metrics", samples |-> n, features |-> f, cv_num |-> cv]

NoResult == [kind |-> "none", samples |-> 0, features |-> 0, cv_num |-> 0]

CvScale == CV_FOLDS * FoldSize

VerdictInclusive(num, den) ==
    IF 10 * num >= 6 * den THEN "PROMISING"
    ELSE IF 10 * num >= 4 * den THEN "MARGINAL"
    ELSE "WEAK"

\* cv_mean = num / den: cv_mean > 0.6, cv_mean > 0.4, otherwise.
Verdict(num, den) ==
    IF 10 * num > 6 * den THEN "PROMISING"
    ELSE IF 10 * num > 4 * den THEN "MARGINAL"
    ELSE "WEAK"

----------------------------------------------------------------------------
(* State *)

VARIABLES
    pc,                 \* position of the run
    duckdbInstalled,    \* environment: import duckdb succeeds
    sklearnInstalled,   \* environment: import sklearn succeeds
    tabpfnInstalled,    \* environment: import tabpfn succeeds
    dbExists,           \* environment: Path(DUCKDB_PATH).exists()
    storeKind,          \* contents of the store, known once it is read
    table,              \* rows of energy_logs, in heap order
    TABPFN_AVAILABLE,
    conn,               \* "none", "open", "closed"
    connReadOnly,
    df,
    use_synthetic,
    X,
    y,
    clf,                \* "none", "TabPFN", "Mock"
    fitted,             \* clf.fit was called
    crossValidated,     \* cross_val_score was called
    results,
    verdict,
    printed,            \* the diagnostics printed so far
    exitCode            \* NULL while the process runs

vars == <<pc, duckdbInstalled, sklearnInstalled, tabpfnInstalled, dbExists,
          storeKind, table, TABPFN_AVAILABLE, conn, connReadOnly, df,
          use_synthetic, X, y, clf, fitted, crossValidated, results, verdict,
          printed, exitCode>>

env == <<duckdbInstalled, sklearnInstalled, tabpfnInstalled, dbExists>>
store == <<storeKind, table>>
evalState == <<clf, fitted, crossValidated, results>>

NoX == [n |-> 0, features |-> <<>>]

Init ==
    /\ pc = "import"
    /\ duckdbInstalled \in BOOLEAN
    /\ sklearnInstalled \in BOOLEAN
    /\ tabpfnInstalled \in BOOLEAN
    /\ dbExists \in BOOLEAN
    /\ storeKind = "unread"
    /\ table = <<>>
    /\ TABPFN_AVAILABLE = FALSE
    /\ conn = "none"
    /\ connReadOnly = FALSE
    /\ df = EmptyFrame
    /\ use_synthetic = FALSE
    /\ X = NoX
    /\ y = <<>>
    /\ clf = "none"
    /\ fitted = FALSE
    /\ crossValidated = FALSE
    /\ results = NoResult
    /\ verdict = "none"
    /\ printed = <<>>
    /\ exitCode = NULL

Say(msg) == printed' = Append(printed, msg)

\* sys.exit(code), or an exception that nothing catches (status 1).
Exit(code) == exitCode' = code /\ pc' = "exited"

----------------------------------------------------------------------------
(* Module level: the import guards, lines 28-49 *)

\* The guards without the scikit-learn check.
ImportGuardsNoSklearnExit ==
    /\ pc = "import"
    /\ IF ~duckdbInstalled
       THEN Say("error_duckdb") /\ Exit(1) /\ UNCHANGED TABPFN_AVAILABLE
       ELSE /\ TABPFN_AVAILABLE' = tabpfnInstalled
            /\ printed' = IF tabpfnInstalled THEN printed
                          ELSE Append(printed, "warning_tabpfn")
            /\ pc' = "main"
            /\ UNCHANGED exitCode
    /\ UNCHANGED <<env, store, conn, connReadOnly, df, use_synthetic, X, y,
                   evalState, verdict>>

ImportGuards ==
    /\ pc = "import"
    /\ IF ~duckdbInstalled
       THEN Say("error_duckdb") /\ Exit(1) /\ UNCHANGED TABPFN_AVAILABLE
       ELSE IF ~sklearnInstalled
       THEN Say("error_sklearn") /\ Exit(1) /\ UNCHANGED TABPFN_AVAILABLE
       ELSE /\ TABPFN_AVAILABLE' = tabpfnInstalled
            /\ printed' = IF tabpfnInstalled THEN printed
                          ELSE Append(printed, "warning_tabpfn")
            /\ pc' = "main"
            /\ UNCHANGED exitCode
    /\ UNCHANGED <<env, store, conn, connReadOnly, df, use_synthetic, X, y,
                   evalState, verdict>>

----------------------------------------------------------------------------
(* main, lines 315-338: resolve the source *)

ResolveSource ==
    /\ pc = "main"
    /\ IF dbExists
       THEN /\ printed' = printed \o <<"banner", "connecting">>
            /\ conn' = "open"
            /\ connReadOnly' = TRUE
            /\ use_synthetic' = FALSE
            /\ pc' = "show_tables"
       ELSE /\ printed' = printed \o <<"banner", "database_not_found">>
            /\ use_synthetic' = TRUE
            /\ pc' = "generate"
            /\ UNCHANGED <<conn, connReadOnly>>
    /\ UNCHANGED <<env, store, TABPFN_AVAILABLE, df, X, y, evalState, verdict,
                   exitCode>>

\* load_energy_data, lines 88-93.  The store is read here for the first
\* time: its table may be missing, may lack a selected column, or holds logs.
ShowTables ==
    /\ pc = "show_tables"
    /\ \/ /\ storeKind' = "no_table"
          /\ table' = <<>>
          /\ df' = EmptyFrame
          /\ Say("table_not_found")
          /\ pc' = "close"
       \/ /\ storeKind' = "bad_schema"
          /\ table' = <<>>
          /\ pc' = "query"
          /\ UNCHANGED <<df, printed>>
       \/ \E nA \in 0..MaxRowsA, nB \in RowCountsB, layout \in Layouts,
             nullCol \in NullChoices :
          /\ storeKind' = "logs"
          /\ table' = MakeTable(nA, nB, layout, nullCol, NullAt)
          /\ pc' = "query"
          /\ UNCHANGED <<df, printed>>
    /\ UNCHANGED <<env, TABPFN_AVAILABLE, conn, connReadOnly, use_synthetic,
                   X, y, evalState, verdict, exitCode>>

\* load_energy_data, lines 96-115.  conn.execute raises when the table lacks
\* a selected column; nothing catches it.
RunQuery ==
    /\ pc = "query"
    /\ IF storeKind = "bad_schema"
       THEN Say("traceback") /\ Exit(1) /\ UNCHANGED df
       ELSE LET q == QueryEnergyLogs(table)
            IN /\ df' = q
               /\ IF q.rows = <<>>
                  THEN Say("no_data") /\ pc' = "close"
                  ELSE Say("loaded") /\ pc' = "engineer"
               /\ UNCHANGED exitCode
    /\ UNCHANGED <<env, store, TABPFN_AVAILABLE, conn, connReadOnly,
                   use_synthetic, X, y, evalState, verdict>>

\* load_energy_data, lines 117-138.
BuildFeatures ==
    /\ pc = "engineer"
    /\ df' = EngineerFeatures(df)
    /\ pc' = "dropna"
    /\ UNCHANGED <<env, store, TABPFN_AVAILABLE, conn, connReadOnly,
                   use_synthetic, X, y, evalState, verdict, printed, exitCode>>

\* load_energy_data, lines 140-143.
DropIncomplete ==
    /\ pc = "dropna"
    /\ df' = DropNa(df)
    /\ pc' = "close"
    /\ UNCHANGED <<env, store, TABPFN_AVAILABLE, conn, connReadOnly,
                   use_synthetic, X, y, evalState, verdict, printed, exitCode>>

\* main, lines 330-340: release the connection, decide on the fallback.
CloseAndDecide ==
    /\ pc = "close"
    /\ conn' = "closed"
    /\ IF df.rows = <<>> \/ Len(df.rows) < MIN_SAMPLES
       THEN /\ Say("insufficient_real_data")
            /\ use_synthetic' = TRUE
            /\ pc' = "generate"
       ELSE /\ pc' = "prepare"
            /\ UNCHANGED <<printed, use_synthetic>>
    /\ UNCHANGED <<env, store, TABPFN_AVAILABLE, connReadOnly, df, X, y,
                   evalState, verdict, exitCode>>

\* generate_synthetic_data(n_samples=200), lines 265-310.
GenerateSynthetic ==
    /\ pc = "generate"
    /\ df' = SyntheticFrame(N_SAMPLES)
    /\ pc' = "synthetic_dropna"
    /\ UNCHANGED <<env, store, TABPFN_AVAILABLE, conn, connReadOnly,
                   use_synthetic, X, y, evalState, verdict, printed, exitCode>>

\* generate_synthetic_data, line 312, and main, line 342.
SyntheticDropIncomplete ==
    /\ pc = "synthetic_dropna"
    /\ df' = DropNa(df)
    /\ Say("generated")
    /\ pc' = "prepare"
    /\ UNCHANGED <<env, store, TABPFN_AVAILABLE, conn, connReadOnly,
                   use_synthetic, X, y, evalState, verdict, exitCode>>

\* Feature selection that returns from main instead of sys.exit(1).
SelectFeaturesReturns ==
    /\ pc = "prepare"
    /\ X' = PrepareX(df)
    /\ y' = PrepareY(df)
    /\ IF PrepareX(df).n = 0
       THEN /\ Say("error_prepare")
            /\ exitCode' = 0
            /\ pc' = "done"
       ELSE /\ Say("evaluating")
            /\ pc' = "eval_check"
            /\ UNCHANGED exitCode
    /\ UNCHANGED <<env, store, TABPFN_AVAILABLE, conn, connReadOnly, df,
                   use_synthetic, evalState, verdict>>

\* prepare_features and main, lines 345-354.
SelectFeatures ==
    /\ pc = "prepare"
    /\ X' = PrepareX(df)
    /\ y' = PrepareY(df)
    /\ IF PrepareX(df).n = 0
       THEN /\ printed' = printed \o
                   (IF Len(AvailableCols(df)) < MIN_FEATURES
                    THEN <<"insufficient_features">> ELSE <<>>)
                   \o <<"error_prepare">>
            /\ Exit(1)
       ELSE /\ Say("evaluating")
            /\ pc' = "eval_check"
            /\ UNCHANGED exitCode
    /\ UNCHANGED <<env, store, TABPFN_AVAILABLE, conn, connReadOnly, df,
                   use_synthetic, evalState, verdict>>

----------------------------------------------------------------------------
(* evaluate_tabpfn *)

\* Lines 210-222: the sample guard, then the choice of the classifier.
EvalCheck ==
    /\ pc = "eval_check"
    /\ IF InsufficientSamples(X.n)
       THEN /\ results' = ErrorResult(X.n)
            /\ pc' = "eval_returned"
            /\ UNCHANGED <<clf, printed>>
       ELSE /\ clf' = IF TABPFN_AVAILABLE THEN "TabPFN" ELSE "Mock"
            /\ Say(IF TABPFN_AVAILABLE THEN "using_real" ELSE "using_mock")
            /\ pc' = "eval_split"
            /\ UNCHANGED results
    /\ UNCHANGED <<env, store, TABPFN_AVAILABLE, conn, connReadOnly, df,
                   use_synthetic, X, y, fitted, crossValidated, verdict,
                   exitCode>>

\* Lines 225-231: train_test_split(..., stratify=y) returns, or raises when
\* a class of y cannot be stratified; nothing catches it.
EvalSplit ==
    /\ pc = "eval_split"
    /\ \/ Say("dataset") /\ pc' = "eval_fit" /\ UNCHANGED exitCode
       \/ Say("traceback") /\ Exit(1)
    /\ UNCHANGED <<env, store, TABPFN_AVAILABLE, conn, connReadOnly, df,
                   use_synthetic, X, y, evalState, verdict>>

\* Lines 234-238: fit on the training split and predict the holdout; a call
\* of the classifier that raises ends the run.
EvalFit ==
    /\ pc = "eval_fit"
    /\ fitted' = TRUE
    /\ \/ pc' = "eval_cv" /\ UNCHANGED <<printed, exitCode>>
       \/ Say("traceback") /\ Exit(1)
    /\ UNCHANGED <<env, store, TABPFN_AVAILABLE, conn, connReadOnly, df,
                   use_synthetic, X, y, clf, crossValidated, results, verdict>>

\* Lines 241-253: 5-fold cross-validation over folds of FoldSize samples;
\* cv_mean = cv / CvScale, cv the number of correct predictions.
\* cross_val_score returns the scores, or raises (it clones the classifier,
\* and rejects one it cannot clone).
EvalCrossValidate ==
    /\ pc = "eval_cv"
    /\ crossValidated' = TRUE
    /\ \/ /\ \E cv \in 0..CvScale :
                results' = MetricsResult(X.n, Len(X.features), cv)
          /\ pc' = "eval_returned"
          /\ UNCHANGED <<printed, exitCode>>
       \/ Say("traceback") /\ Exit(1) /\ UNCHANGED results
    /\ UNCHANGED <<env, store, TABPFN_AVAILABLE, conn, connReadOnly, df,
                   use_synthetic, X, y, clf, fitted, verdict>>

----------------------------------------------------------------------------
(* main, lines 358-396 *)

CheckResults ==
    /\ pc = "eval_returned"
    /\ IF results.kind = "error"
       THEN Say("error_evaluate") /\ Exit(1)
       ELSE pc' = "report" /\ UNCHANGED <<printed, exitCode>>
    /\ UNCHANGED <<env, store, TABPFN_AVAILABLE, conn, connReadOnly, df,
                   use_synthetic, X, y, evalState, verdict>>

Report ==
    /\ pc = "report"
    /\ verdict' = Verdict(results.cv_num, CvScale)
    /\ printed' = printed \o <<"results", "verdict", "next_steps">>
    /\ exitCode' = 0
    /\ pc' = "done"
    /\ UNCHANGED <<env, store, TABPFN_AVAILABLE, conn, connReadOnly, df,
                   use_synthetic, X, y, evalState>>

Next ==
    \/ ImportGuards
    \/ ResolveSource
    \/ ShowTables
    \/ RunQuery
    \/ BuildFeatures
    \/ DropIncomplete
    \/ CloseAndDecide
    \/ GenerateSynthetic
    \/ SyntheticDropIncomplete
    \/ SelectFeatures
    \/ EvalCheck
    \/ EvalSplit
    \/ EvalFit
    \/ EvalCrossValidate
    \/ CheckResults
    \/ Report

Spec == Init /\ [][Next]_vars

----------------------------------------------------------------------------
(* evaluate_tabpfn called on its own, with any number of samples *)

InitEval ==
    /\ pc = "eval_check"
    /\ duckdbInstalled = TRUE
    /\ sklearnInstalled = TRUE
    /\ tabpfnInstalled \in BOOLEAN
    /\ TABPFN_AVAILABLE = tabpfnInstalled
    /\ dbExists = FALSE
    /\ storeKind = "unread"
    /\ table = <<>>
    /\ conn = "none"
    /\ connReadOnly = FALSE
    /\ df = EmptyFrame
    /\ use_synthetic = FALSE
    /\ \E n \in 0..MaxEvalN :
          /\ X = [n |-> n, features |-> feature_cols]
          /\ y = [i \in 1..n |-> 1 + (i % 5)]
    /\ clf = "none"
    /\ fitted = FALSE
    /\ crossValidated = FALSE
    /\ results = NoResult
    /\ verdict = "none"
    /\ printed = <<>>
    /\ exitCode = NULL

NextEval ==
    \/ EvalCheck
    \/ EvalSplit
    \/ EvalFit
    \/ EvalCrossValidate

SpecEval == InitEval /\ [][NextEval]_vars

----------------------------------------------------------------------------
(* Properties *)

Stage(p) ==
    CASE p = "import" -> 0
      [] p \in {"main", "show_tables", "query"} -> 1
      [] p \in {"engineer", "dropna", "close", "generate", "synthetic_dropna"} -> 2
      [] p = "prepare" -> 3
      [] p \in {"eval_check", "eval_split", "eval_fit", "eval_cv", "eval_returned"} -> 4
      [] p = "report" -> 5
      [] OTHER -> 6

Printed(msg) == \E i \in 1..Len(printed) : printed[i] = msg

Terminated == pc \in {"done", "exited"}

MainStarted == Printed("banner")

\* C4: evaluate_tabpfn with fewer than MIN_SAMPLES samples returns an error
\* result carrying the sample count and never selects, fits or
\* cross-validates a classifier; with MIN_SAMPLES or more it returns no error
\* result and goes on to the split, the fit and the cross-validation.
C4_SampleGuard ==
    /\ (pc # "eval_check" /\ X.n < MIN_SAMPLES) =>
          /\ pc = "eval_returned"
          /\ results = ErrorResult(X.n)
          /\ results.samples = X.n
          /\ clf = "none" /\ ~fitted /\ ~crossValidated
    /\ (pc # "eval_check" /\ X.n >= MIN_SAMPLES) =>
          /\ results.kind # "error"
          /\ clf \in {"TabPFN", "Mock"}
          /\ pc = "eval_returned" =>
                fitted /\ crossValidated /\ results.kind = "metrics"
                /\ results.samples = X.n

C4_Witness ==
    /\ pc = "eval_returned"
    /\ X.n = MIN_SAMPLES - 1
    /\ results.kind = "error"
    /\ results.samples = 19

----------------------------------------------------------------------------
(* The sequences the claims speak of, taken from the table itself *)

\* The chronological record sequence of user u: the logged rows of u by date.
EntitySeq(u) ==
    LET OfUser(r) == r.user_id = u /\ IsLogged(r)
    IN SortRows(SelectSeq(table, OfUser))

EntitySeqs == [u \in Users |-> EntitySeq(u)]

\* The position of frame row r in the sequence es of its entity.
EntityPos(es, r) == CHOOSE p \in 1..Len(es) : es[p].log_date = r.log_date

\* The raw value k positions before r in the sequence es of its entity.
EntityLag(es, r, c, k) ==
    LET p == EntityPos(es, r)
    IN IF p - k < 1 THEN NULL ELSE es[p - k].raw[c]

RECURSIVE SumDefined(_, _, _, _)
SumDefined(es, lo, hi, c) ==
    IF hi < lo THEN 0
    ELSE (IF es[hi].raw[c] = NULL THEN 0 ELSE es[hi].raw[c])
         + SumDefined(es, lo, hi - 1, c)

CountDefined(es, lo, hi, c) ==
    Cardinality({j \in lo..hi : es[j].raw[c] # NULL})

\* First position of the window that ends at position p: the first record
\* while p < 7, the 7 most recent ones afterwards.
WindowStart(p) == IF p < ROLL_WINDOW THEN 1 ELSE p - ROLL_WINDOW + 1

RealFrameStage == storeKind = "logs" /\ pc \in {"dropna", "close"}

\* C6: in load_energy_data every lag-1 / lag-7 feature of a record is the raw
\* value 1 / 7 positions earlier in the chronological sequence of the same
\* entity (undefined when that position does not exist), whatever the
\* interleaving of the entities in the table; a record for which one of the
\* two positions does not exist is absent from the frame after the drop.
C6_LagWithinEntity ==
    RealFrameStage =>
        LET seqs == EntitySeqs
        IN \A i \in 1..Len(df.rows) :
              LET r == df.rows[i]
                  es == seqs[r.user_id]
              IN /\ \A c \in RawColSet :
                       /\ r.lag1[c] = EntityLag(es, r, c, LAG_SHORT)
                       /\ r.lag7[c] = EntityLag(es, r, c, LAG_LONG)
                 /\ pc = "close" => EntityPos(es, r) > LAG_LONG

C6_Witness ==
    /\ storeKind = "logs"
    /\ pc = "close"
    /\ \E i, j \in 1..Len(df.rows) :
          /\ df.rows[i].user_id = 1
          /\ df.rows[j].user_id = 2
          /\ df.rows[j].lag7["mood_score"]
                = CellValue(2, LogDate(2, 1), "mood_score")
    /\ table[1].user_id # table[2].user_id

\* C7: the rolling-7 feature of the k-th record of an entity is the mean of
\* the entity's first k raw values while k < 7 and of its 7 most recent
\* values (the current one included) afterwards; an undefined value of the
\* window is left out of the mean.  It holds of load_energy_data and of
\* generate_synthetic_data.
C7_RollingMean ==
    /\ (storeKind = "logs" /\ pc = "dropna") =>
          LET seqs == EntitySeqs
          IN \A i \in 1..Len(df.rows) : \A c \in RollColSet :
                LET r == df.rows[i]
                    es == seqs[r.user_id]
                    p == EntityPos(es, r)
                    m == r.rolling7[c]
                IN /\ m.sum = SumDefined(es, WindowStart(p), p, c)
                   /\ m.n = CountDefined(es, WindowStart(p), p, c)
                   /\ (\A j \in WindowStart(p)..p : es[j].raw[c] # NULL) =>
                          m.n = (IF p < ROLL_WINDOW THEN p ELSE ROLL_WINDOW)
    /\ pc = "synthetic_dropna" =>
          LET es == SynthBaseRows(N_SAMPLES)
          IN \A k \in 1..Len(df.rows) : \A c \in RollColSet :
                LET m == df.rows[k].rolling7[c]
                IN /\ m.sum = SumDefined(es, WindowStart(k), k, c)
                   /\ m.n = (IF k < ROLL_WINDOW THEN k ELSE ROLL_WINDOW)

C7_Witness ==
    /\ storeKind = "logs"
    /\ pc = "dropna"
    /\ \E i, j \in 1..Len(df.rows) :
          /\ df.rows[i].user_id = 2
          /\ df.rows[j].user_id = 2
          /\ df.rows[i].log_date = LogDate(2, 3)
          /\ df.rows[i].rolling7["stress_level"].n = 3
          /\ df.rows[j].log_date = LogDate(2, ROLL_WINDOW + 1)
          /\ df.rows[j].rolling7["stress_level"].n = ROLL_WINDOW

\* The frame load_energy_data holds before its final drop.
EngineeredFromTable == EngineerFeatures(QueryEnergyLogs(table)).rows

InFrame(r) ==
    \E i \in 1..Len(df.rows) :
        df.rows[i].user_id = r.user_id /\ df.rows[i].log_date = r.log_date

RawDefined(r) == \A c \in RawColSet : r.raw[c] # NULL

----------------------------------------------------------------------------
(* The run as a whole *)

\* C1 (as claimed): with no store, main generates 200 synthetic records, the
\* drop removes exactly the first 6, and feature selection receives 194
\* records and returns a matrix of 194 rows and 12 columns.
C1_SyntheticCounts ==
    /\ (~dbExists /\ pc = "synthetic_dropna") => Len(df.rows) = 200
    /\ (~dbExists /\ pc = "prepare") =>
          /\ Len(df.rows) = 194
          /\ \A i \in 1..Len(df.rows) : df.rows[i].log_date = i + 6
    /\ (~dbExists /\ MainStarted /\ pc \notin {"generate", "synthetic_dropna", "prepare"}) =>
          X.n = 194 /\ Len(X.features) = 12

RequiredMissing == ~duckdbInstalled \/ ~sklearnInstalled

EngineeredRealRows == Len(DropNa(EngineerFeatures(QueryEnergyLogs(table))).rows)

FallbackCondition ==
    \/ ~dbExists
    \/ storeKind = "no_table"
    \/ storeKind = "logs" /\ EngineeredRealRows < MIN_SAMPLES

\* C3 (as claimed): main evaluates synthetic data exactly when the store
\* path does not exist, the energy_logs table is missing, or fewer than 20
\* rows remain after feature engineering; with 20 or more engineered real
\* rows the real frame goes to feature selection; the fallback by itself
\* neither raises nor ends the run.
C3_FallbackEvaluatesSynthetic ==
    (Terminated /\ MainStarted /\ storeKind # "bad_schema") =>
        /\ (use_synthetic /\ results.kind # "none") <=> FallbackCondition
        /\ ~FallbackCondition => (~use_synthetic /\ X.n = EngineeredRealRows)
        /\ use_synthetic => ~Printed("error_prepare")

\* C5: the verdict of a completed run is PROMISING exactly when
\* cv_mean > 0.6, MARGINAL exactly when 0.4 < cv_mean <= 0.6 and WEAK
\* otherwise; one verdict is printed per completed run, none before.
C5_VerdictThresholds ==
    LET num == results.cv_num
        den == CvScale
    IN /\ pc = "done" =>
             /\ verdict \in {"PROMISING", "MARGINAL", "WEAK"}
             /\ verdict = "PROMISING" <=> 10 * num > 6 * den
             /\ verdict = "MARGINAL" <=>
                   (10 * num > 4 * den /\ 10 * num <= 6 * den)
             /\ verdict = "WEAK" <=> 10 * num <= 4 * den
             /\ Cardinality({i \in 1..Len(printed) : printed[i] = "verdict"}) = 1
       /\ pc # "done" => (verdict = "none" /\ ~Printed("verdict"))

C5_Witness ==
    /\ pc = "done"
    /\ 10 * results.cv_num = 6 * CvScale
    /\ verdict = "MARGINAL"

\* A step stays in its stage, enters the next one, or ends the run.
StageStep == Stage(pc') \in {Stage(pc), Stage(pc) + 1} \/ pc' = "exited"

SelectionOrEvaluationError ==
    \/ Printed("error_prepare")
    \/ results.kind = "error"
    \/ Printed("traceback") /\ Printed("evaluating")

LastPrinted == IF printed = <<>> THEN "" ELSE printed[Len(printed)]

Diagnostics == {"error_prepare", "error_evaluate", "traceback"}

\* The deviations end the run with a diagnostic and a non-zero exit code.
DeviationsExit ==
    (Terminated /\ MainStarted /\ (use_synthetic \/ SelectionOrEvaluationError)) =>
        (pc = "exited" /\ exitCode = 1 /\ LastPrinted \in Diagnostics)

C9_ConnectionReleased ==
    /\ conn = "open" =>
          (connReadOnly /\ pc \in {"show_tables", "query", "engineer", "dropna", "close"})
    /\ Terminated => conn # "open"

====
